---- MODULE Spec2Model ----
(***************************************************************************)
(* Model of book_layout_view.py: a book is a list of spreads, each spread  *)
(* a left and a right page slot; a page slot holds an image path, the      *)
(* number it displays and whether that number is visible.  The handlers of *)
(* BookLayoutApp are the actions.  Rendering (QPixmap scaling in           *)
(* PageWidget.load_image) is not modelled: a path that exists on disk is   *)
(* taken to name a decodable image.  Python's 0-based list indexes are     *)
(* kept in the handlers' parameters (spread_idx, page_idx); the sequences  *)
(* of the model are 1-based, so spread_idx addresses spreads[spread_idx+1].*)
(***************************************************************************)
EXTENDS Integers, Sequences, FiniteSets, TLC

VARIABLES
    spreads,             \* BookLayoutApp.spreads: sequence of spread records
    current_page_width,  \* BookLayoutApp.current_page_width
    page_number_start,   \* BookLayoutApp.page_number_start
    show_page_numbers,   \* BookLayoutApp.show_page_numbers
    grid,                \* grid_layout: <<row, col>> of each spread placed by reorganize_layout
    viewport_width,      \* scroll_area.viewport().width()
    resize_timer,        \* BookLayoutApp.resize_timer: [active, remaining]
    since_resize,        \* history: ms elapsed since the last resizeEvent (capped)
    fires_since_resize,  \* history: timeouts of resize_timer since the last resizeEvent
    resizes_left,        \* environment: resize events the user will still produce
    files,               \* environment: image paths that exist on disk
    book_file,           \* environment: content of the *.book.json file
    saved_book,          \* history: the book as it was when save_book last wrote book_file
    lastOp               \* history: the handler that ran last, its target and outcome

vars == <<spreads, current_page_width, page_number_start, show_page_numbers,
          grid, viewport_width, resize_timer, since_resize, fires_since_resize,
          resizes_left, files, book_file, saved_book, lastOp>>

bookVars == <<spreads, current_page_width, page_number_start, show_page_numbers>>
timerVars == <<viewport_width, resize_timer, since_resize, fires_since_resize,
               resizes_left>>
fileVars == <<files, book_file, saved_book>>

(***************************************************************************)
(* Bounds of the model and constants of the program.                       *)
(***************************************************************************)
MaxSpreads == 3
MaxFileSpreads == 2
MaxResizes == 3
TickMs == 50

DefaultPageWidth == 300
DefaultStartNumber == 1
SpreadStartDefault == 1
TimerInterval == 100
GridSpacing == 20
SpreadMargin == 30
ZoomMax == 1000
ZoomMin == 200

Images == {"a.png", "b.png"}
StartNumbers == {1, 5}
InitialViewportWidth == 1200
ViewportWidths == {600, 1300, 2000}

Max(a, b) == IF a >= b THEN a ELSE b
Min(a, b) == IF a <= b THEN a ELSE b

(***************************************************************************)
(* PageWidget and SpreadWidget.                                            *)
(***************************************************************************)
PageWidget(page_number) ==
    [image_path |-> "", page_number |-> page_number, number_visible |-> TRUE]

SpreadWidget(start_number) ==
    [left_page |-> PageWidget(start_number),
     right_page |-> PageWidget(start_number + 1)]

load_image(page, image_path) == [page EXCEPT !.image_path = image_path]

update_page_number(page, number, visible) ==
    [page EXCEPT !.page_number = number, !.number_visible = visible]

update_page_numbers(spread, start_number, visible) ==
    [left_page |-> update_page_number(spread.left_page, start_number, visible),
     right_page |-> update_page_number(spread.right_page, start_number + 1, visible)]

update_all_page_numbers(sp, start, visible) ==
    [i \in 1..Len(sp) |-> update_page_numbers(sp[i], start + ((i - 1) * 2), visible)]

\* The page of a spread at page_idx (SpreadWidget.get_page_index read backwards).
get_page(spread, page_idx) ==
    IF page_idx = 0 THEN spread.left_page ELSE spread.right_page

ImageAt(sp, spread_idx, page_idx) == get_page(sp[spread_idx + 1], page_idx).image_path

\* page.load_image(image_path) for the page at (spread_idx, page_idx) of sp.
LoadImageAt(sp, spread_idx, page_idx, image_path) ==
    LET s == sp[spread_idx + 1]
        t == IF page_idx = 0
             THEN [s EXCEPT !.left_page = load_image(s.left_page, image_path)]
             ELSE [s EXCEPT !.right_page = load_image(s.right_page, image_path)]
    IN [sp EXCEPT ![spread_idx + 1] = t]

\* list.insert(i, x) and list.pop(i), i counted from 0.
ListInsert(s, i, x) == SubSeq(s, 1, i) \o <<x>> \o SubSeq(s, i + 1, Len(s))
ListPop(s, i) == SubSeq(s, 1, i) \o SubSeq(s, i + 2, Len(s))

(***************************************************************************)
(* reorganize_layout: the grid position of every spread.                   *)
(***************************************************************************)
SpreadsPerRow(available_width, page_width) ==
    Max(1, (available_width + GridSpacing)
               \div (((page_width * 2) + SpreadMargin) + GridSpacing))

reorganize_layout(sp, available_width, page_width) ==
    LET spreads_per_row == SpreadsPerRow(available_width, page_width)
    IN [i \in 1..Len(sp) |->
           <<(i - 1) \div spreads_per_row, (i - 1) % spreads_per_row>>]

(***************************************************************************)
(* History record of the last handler.                                     *)
(***************************************************************************)
NoFile == [kind |-> "none"]

Op(name, spread_idx, page_idx, outcome) ==
    [op |-> name, spread_idx |-> spread_idx, page_idx |-> page_idx,
     outcome |-> outcome, file |-> NoFile]

(***************************************************************************)
(* swap_pages, swap_with_prev_page, swap_with_next_page.                   *)
(***************************************************************************)
\* Mutant: the first page is overwritten before its path is kept.
swap_pages_NoTemp(sp, i1, p1, i2, p2) ==
    LET s1 == LoadImageAt(sp, i1, p1, ImageAt(sp, i2, p2))
    IN LoadImageAt(s1, i2, p2, ImageAt(s1, i1, p1))

swap_pages(sp, i1, p1, i2, p2) ==
    LET temp_path == ImageAt(sp, i1, p1)
        s1 == LoadImageAt(sp, i1, p1, ImageAt(sp, i2, p2))
    IN LoadImageAt(s1, i2, p2, temp_path)

SwapWithPrev(sp, spread_idx, page_idx) ==
    IF page_idx = 0 /\ spread_idx > 0
    THEN swap_pages(sp, spread_idx, 0, spread_idx - 1, 1)
    ELSE IF page_idx = 1
         THEN swap_pages(sp, spread_idx, 1, spread_idx, 0)
         ELSE sp

SwapWithNext(sp, spread_idx, page_idx) ==
    IF page_idx = 0
    THEN swap_pages(sp, spread_idx, 0, spread_idx, 1)
    ELSE IF page_idx = 1 /\ spread_idx < Len(sp) - 1
         THEN swap_pages(sp, spread_idx, 1, spread_idx + 1, 0)
         ELSE sp

(***************************************************************************)
(* insert_new_page_before, insert_new_page_after: the spreads list after   *)
(* the splice, before the page numbers are refreshed.                      *)
(***************************************************************************)
InsertBefore(sp, spread_idx, page_idx) ==
    LET spread == sp[spread_idx + 1]
        new_spread == SpreadWidget(SpreadStartDefault)
    IN IF page_idx = 0
       THEN IF spread_idx > 0
            THEN LET prev_spread == sp[spread_idx]
                     new1 == [left_page |-> load_image(new_spread.left_page,
                                                       prev_spread.right_page.image_path),
                              right_page |-> load_image(new_spread.right_page,
                                                        spread.left_page.image_path)]
                     cur1 == [left_page |-> load_image(spread.left_page,
                                                       spread.right_page.image_path),
                              right_page |-> load_image(spread.right_page, "")]
                     prev1 == [prev_spread EXCEPT
                                  !.right_page = load_image(prev_spread.right_page, "")]
                 IN ListInsert([sp EXCEPT ![spread_idx] = prev1,
                                          ![spread_idx + 1] = cur1],
                               spread_idx, new1)
            ELSE LET new1 == [left_page |-> load_image(new_spread.left_page,
                                                       spread.left_page.image_path),
                              right_page |-> load_image(new_spread.right_page,
                                                        spread.right_page.image_path)]
                     temp_left_image == spread.left_page.image_path
                     cur1 == [left_page |-> load_image(spread.left_page, ""),
                              right_page |-> load_image(spread.right_page,
                                                        temp_left_image)]
                 IN ListInsert([sp EXCEPT ![spread_idx + 1] = cur1],
                               spread_idx + 1, new1)
       ELSE LET new1 == [new_spread EXCEPT
                            !.left_page = load_image(new_spread.left_page,
                                                     spread.right_page.image_path)]
                cur1 == [spread EXCEPT
                            !.right_page = load_image(spread.right_page, "")]
            IN ListInsert([sp EXCEPT ![spread_idx + 1] = cur1],
                          spread_idx + 1, new1)

InsertAfter(sp, spread_idx, page_idx) ==
    LET spread == sp[spread_idx + 1]
        new_spread == SpreadWidget(SpreadStartDefault)
    IN IF page_idx = 0
       THEN LET new1 == [new_spread EXCEPT
                            !.left_page = load_image(new_spread.left_page,
                                                     spread.right_page.image_path)]
                cur1 == [spread EXCEPT
                            !.right_page = load_image(spread.right_page, "")]
            IN ListInsert([sp EXCEPT ![spread_idx + 1] = cur1],
                          spread_idx + 1, new1)
       ELSE IF spread_idx < Len(sp) - 1
            THEN LET next_spread == sp[spread_idx + 2]
                     new1 == [new_spread EXCEPT
                                 !.right_page = load_image(new_spread.right_page,
                                                           next_spread.left_page.image_path)]
                     next1 == [left_page |-> load_image(next_spread.left_page,
                                                        next_spread.right_page.image_path),
                               right_page |-> load_image(next_spread.right_page, "")]
                 IN ListInsert([sp EXCEPT ![spread_idx + 2] = next1],
                               spread_idx + 1, new1)
            ELSE Append(sp, new_spread)

(***************************************************************************)
(* delete_page (confirmed): the spreads list after the deletion and the    *)
(* removal of an emptied spread, before the page numbers are refreshed.    *)
(***************************************************************************)
\* Mutant: the right page is not cleared after its image moved to the left.
DeletePage_KeepRight(sp, spread_idx, page_idx) ==
    LET spread == sp[spread_idx + 1]
        cur1 == IF page_idx = 0
                THEN IF spread_idx > 0
                     THEN [spread EXCEPT
                              !.left_page = load_image(spread.left_page,
                                                       spread.right_page.image_path)]
                     ELSE [spread EXCEPT
                              !.left_page = load_image(spread.left_page, "")]
                ELSE [spread EXCEPT
                         !.right_page = load_image(spread.right_page, "")]
        s1 == [sp EXCEPT ![spread_idx + 1] = cur1]
    IN IF cur1.left_page.image_path = "" /\ cur1.right_page.image_path = ""
          /\ Len(sp) > 1
       THEN ListPop(s1, spread_idx)
       ELSE s1

DeletePage(sp, spread_idx, page_idx) ==
    LET spread == sp[spread_idx + 1]
        cur1 == IF page_idx = 0
                THEN IF spread_idx > 0
                     THEN [left_page |-> load_image(spread.left_page,
                                                    spread.right_page.image_path),
                           right_page |-> load_image(spread.right_page, "")]
                     ELSE [spread EXCEPT
                              !.left_page = load_image(spread.left_page, "")]
                ELSE [spread EXCEPT
                         !.right_page = load_image(spread.right_page, "")]
        s1 == [sp EXCEPT ![spread_idx + 1] = cur1]
    IN IF cur1.left_page.image_path = "" /\ cur1.right_page.image_path = ""
          /\ Len(sp) > 1
       THEN ListPop(s1, spread_idx)
       ELSE s1

(***************************************************************************)
(* Initial state: BookLayoutApp.__init__ followed by its add_new_spread.   *)
(***************************************************************************)
NoTimer == [active |-> FALSE, remaining |-> 0]

NoSavedBook == [kind |-> "none"]

MissingFile == [kind |-> "missing"]

Init ==
    /\ current_page_width = DefaultPageWidth
    /\ page_number_start = DefaultStartNumber
    /\ show_page_numbers = TRUE
    /\ spreads = <<update_page_numbers(SpreadWidget(DefaultStartNumber),
                                       DefaultStartNumber, TRUE)>>
    /\ viewport_width = InitialViewportWidth
    /\ grid = reorganize_layout(spreads, viewport_width, current_page_width)
    /\ resize_timer = NoTimer
    /\ since_resize = TimerInterval
    /\ fires_since_resize = 0
    /\ resizes_left = MaxResizes
    /\ files = Images
    /\ book_file = MissingFile
    /\ saved_book = NoSavedBook
    /\ lastOp = Op("init", -1, -1, "done")

(***************************************************************************)
(* The editing handlers.                                                   *)
(***************************************************************************)
add_new_spread ==
    /\ Len(spreads) < MaxSpreads
    /\ LET start_number == page_number_start + (Len(spreads) * 2)
           spread == update_page_numbers(SpreadWidget(start_number),
                                         start_number, show_page_numbers)
       IN /\ spreads' = Append(spreads, spread)
          /\ grid' = reorganize_layout(spreads', viewport_width, current_page_width)
    /\ lastOp' = Op("add_new_spread", -1, -1, "done")
    /\ UNCHANGED <<current_page_width, page_number_start, show_page_numbers>>
    /\ UNCHANGED <<timerVars, fileVars>>

\* PageWidget.load_image_from_dialog; file_name = "" is a cancelled dialog.
load_image_from_dialog(spread_idx, page_idx, file_name) ==
    /\ spreads' = IF file_name # ""
                  THEN LoadImageAt(spreads, spread_idx, page_idx, file_name)
                  ELSE spreads
    /\ lastOp' = Op("load_image_from_dialog", -1, -1,
                    IF file_name # "" THEN "done" ELSE "cancelled")
    /\ UNCHANGED <<current_page_width, page_number_start, show_page_numbers, grid>>
    /\ UNCHANGED <<timerVars, fileVars>>

swap_with_prev_page(spread_idx, page_idx) ==
    /\ spreads' = update_all_page_numbers(SwapWithPrev(spreads, spread_idx, page_idx),
                                          page_number_start, show_page_numbers)
    /\ lastOp' = Op("swap_with_prev_page", spread_idx, page_idx, "done")
    /\ UNCHANGED <<current_page_width, page_number_start, show_page_numbers, grid>>
    /\ UNCHANGED <<timerVars, fileVars>>

swap_with_next_page(spread_idx, page_idx) ==
    /\ spreads' = update_all_page_numbers(SwapWithNext(spreads, spread_idx, page_idx),
                                          page_number_start, show_page_numbers)
    /\ lastOp' = Op("swap_with_next_page", spread_idx, page_idx, "done")
    /\ UNCHANGED <<current_page_width, page_number_start, show_page_numbers, grid>>
    /\ UNCHANGED <<timerVars, fileVars>>

insert_new_page_before(spread_idx, page_idx) ==
    /\ Len(spreads) < MaxSpreads
    /\ LET inserted == InsertBefore(spreads, spread_idx, page_idx)
       IN /\ grid' = reorganize_layout(inserted, viewport_width, current_page_width)
          /\ spreads' = update_all_page_numbers(inserted, page_number_start,
                                                show_page_numbers)
    /\ lastOp' = Op("insert_new_page_before", spread_idx, page_idx, "done")
    /\ UNCHANGED <<current_page_width, page_number_start, show_page_numbers>>
    /\ UNCHANGED <<timerVars, fileVars>>

insert_new_page_after(spread_idx, page_idx) ==
    /\ Len(spreads) < MaxSpreads
    /\ LET inserted == InsertAfter(spreads, spread_idx, page_idx)
       IN /\ grid' = reorganize_layout(inserted, viewport_width, current_page_width)
          /\ spreads' = update_all_page_numbers(inserted, page_number_start,
                                                show_page_numbers)
    /\ lastOp' = Op("insert_new_page_after", spread_idx, page_idx, "done")
    /\ UNCHANGED <<current_page_width, page_number_start, show_page_numbers>>
    /\ UNCHANGED <<timerVars, fileVars>>

\* reply is the answer to the confirmation dialog.
delete_page(spread_idx, page_idx, reply) ==
    /\ IF reply = "Yes"
       THEN LET deleted == DeletePage(spreads, spread_idx, page_idx)
            IN /\ grid' = reorganize_layout(deleted, viewport_width,
                                            current_page_width)
               /\ spreads' = update_all_page_numbers(deleted, page_number_start,
                                                     show_page_numbers)
       ELSE UNCHANGED <<spreads, grid>>
    /\ lastOp' = Op("delete_page", spread_idx, page_idx,
                    IF reply = "Yes" THEN "done" ELSE "declined")
    /\ UNCHANGED <<current_page_width, page_number_start, show_page_numbers>>
    /\ UNCHANGED <<timerVars, fileVars>>

new_book(reply) ==
    /\ IF reply = "Yes"
       THEN /\ current_page_width' = DefaultPageWidth
            /\ page_number_start' = DefaultStartNumber
            /\ show_page_numbers' = TRUE
            /\ spreads' = <<update_page_numbers(SpreadWidget(DefaultStartNumber),
                                                DefaultStartNumber, TRUE)>>
            /\ grid' = reorganize_layout(spreads', viewport_width, DefaultPageWidth)
       ELSE UNCHANGED <<bookVars, grid>>
    /\ lastOp' = Op("new_book", -1, -1, IF reply = "Yes" THEN "done" ELSE "declined")
    /\ UNCHANGED <<timerVars, fileVars>>

toggle_page_numbers(checked) ==
    /\ show_page_numbers' = checked
    /\ spreads' = update_all_page_numbers(spreads, page_number_start, checked)
    /\ lastOp' = Op("toggle_page_numbers", -1, -1, "done")
    /\ UNCHANGED <<current_page_width, page_number_start, grid>>
    /\ UNCHANGED <<timerVars, fileVars>>

\* ok is the dialog's second result: FALSE when the input dialog is cancelled.
set_start_page_number(number, ok) ==
    /\ IF ok
       THEN /\ page_number_start' = number
            /\ spreads' = update_all_page_numbers(spreads, number, show_page_numbers)
       ELSE UNCHANGED <<page_number_start, spreads>>
    /\ lastOp' = Op("set_start_page_number", -1, -1,
                    IF ok THEN "done" ELSE "cancelled")
    /\ UNCHANGED <<current_page_width, show_page_numbers, grid>>
    /\ UNCHANGED <<timerVars, fileVars>>

(***************************************************************************)
(* Zoom.  int(w * 1.3) and int(w * 0.7) are computed in IEEE-754 doubles   *)
(* and truncated.  The double nearest 1.3 lies above 1.3, so the product   *)
(* never falls below (13 * w) / 10 and the truncation is its floor.  The   *)
(* double nearest 0.7 is 0.7 - 0.4 * 2^-53: for w a multiple of 10 the      *)
(* exact product lies 0.4 * w * 2^-53 below the integer N = 7 * w / 10, and *)
(* is rounded to the double below N, so truncated to N - 1, when that      *)
(* exceeds half the spacing 2^(e-52) of the doubles at N (2^e <= N <       *)
(* 2^(e+1)), that is when 4 * w > 10 * 2^e; otherwise the truncation is    *)
(* the floor of (7 * w) / 10.                                              *)
(***************************************************************************)
RECURSIVE Pow2Floor(_)
Pow2Floor(n) == IF n < 2 THEN 1 ELSE 2 * Pow2Floor(n \div 2)

\* int(w * 1.3), w >= 0
IntTimes1_3(w) == (13 * w) \div 10

\* int(w * 0.7), w >= 0
IntTimes0_7(w) ==
    LET n == (7 * w) \div 10
    IN IF w > 0 /\ w % 10 = 0 /\ 4 * w > 10 * Pow2Floor(n) THEN n - 1 ELSE n

zoom_in ==
    /\ IF current_page_width < ZoomMax
       THEN /\ current_page_width' = Min(ZoomMax, IntTimes1_3(current_page_width))
            /\ grid' = reorganize_layout(spreads, viewport_width, current_page_width')
       ELSE UNCHANGED <<current_page_width, grid>>
    /\ lastOp' = Op("zoom_in", -1, -1, "done")
    /\ UNCHANGED <<spreads, page_number_start, show_page_numbers>>
    /\ UNCHANGED <<timerVars, fileVars>>

zoom_out ==
    /\ IF current_page_width > ZoomMin
       THEN /\ current_page_width' = Max(ZoomMin, IntTimes0_7(current_page_width))
            /\ grid' = reorganize_layout(spreads, viewport_width, current_page_width')
       ELSE UNCHANGED <<current_page_width, grid>>
    /\ lastOp' = Op("zoom_out", -1, -1, "done")
    /\ UNCHANGED <<spreads, page_number_start, show_page_numbers>>
    /\ UNCHANGED <<timerVars, fileVars>>

(***************************************************************************)
(* JSON values: json.dump turns Python values into JSON text and json.load *)
(* turns JSON text into Python values.  A JSON value is a record tagged    *)
(* with its type; an object carries its members, Absent for a key the      *)
(* object does not have.  A file is missing (open raises), holds text that *)
(* is no JSON (json.load raises) or holds a JSON value.                    *)
(***************************************************************************)
Absent == [t |-> "absent"]
JNum(n) == [t |-> "num", v |-> n]
JStr(x) == [t |-> "str", v |-> x]
JBool(b) == [t |-> "bool", v |-> b]
JArr(seq) == [t |-> "arr", v |-> seq]
JObj(members) == [t |-> "obj", v |-> members]

IsDict(j) == j.t = "obj"

\* dict.get(key, default) on a JSON object.
DictGet(j, key, default) ==
    IF j.v[key] = Absent THEN default ELSE j.v[key]

PageJson(image_path) == JObj([image_path |-> image_path])

EntryJson(left_page, right_page) ==
    JObj([left_page |-> left_page, right_page |-> right_page])

SettingsJson(page_width, start, show) ==
    JObj([page_width |-> page_width, page_number_start |-> start,
          show_page_numbers |-> show])

BookJson(settings, spread_list) ==
    JObj([settings |-> settings, spreads |-> spread_list])

NotJsonFile == [kind |-> "text"]

JsonFile(value) == [kind |-> "json", value |-> value]

(***************************************************************************)
(* save_book.                                                              *)
(***************************************************************************)
\* Mutant: the left page's path is written for both pages.
JsonDump_LeftTwice(sp, page_width, start, show) ==
    BookJson(SettingsJson(JNum(page_width), JNum(start), JBool(show)),
             JArr([i \in 1..Len(sp) |->
                      EntryJson(PageJson(JStr(sp[i].left_page.image_path)),
                                PageJson(JStr(sp[i].left_page.image_path)))]))

\* book_data of save_book, as json.dump writes it.
JsonDump(sp, page_width, start, show) ==
    BookJson(SettingsJson(JNum(page_width), JNum(start), JBool(show)),
             JArr([i \in 1..Len(sp) |->
                      EntryJson(PageJson(JStr(sp[i].left_page.image_path)),
                                PageJson(JStr(sp[i].right_page.image_path)))]))

\* History: what the book was when it was saved.
BookSnapshot ==
    [kind |-> "book",
     page_width |-> current_page_width,
     page_number_start |-> page_number_start,
     show_page_numbers |-> show_page_numbers,
     paths |-> [i \in 1..Len(spreads) |->
                   <<spreads[i].left_page.image_path,
                     spreads[i].right_page.image_path>>]]

SaveResults == {"written", "open_error", "write_error"}

\* file_name = "" is a cancelled dialog; result is what open and json.dump do.
save_book(file_name, result) ==
    /\ IF file_name = "" \/ result = "open_error"
       THEN UNCHANGED <<book_file, saved_book>>
       ELSE IF result = "written"
            THEN /\ book_file' = JsonFile(JsonDump(spreads, current_page_width,
                                                   page_number_start,
                                                   show_page_numbers))
                 /\ saved_book' = BookSnapshot
            ELSE /\ book_file' = NotJsonFile
                 /\ saved_book' = NoSavedBook
    /\ lastOp' = Op("save_book", -1, -1,
                    IF file_name = "" THEN "cancelled"
                    ELSE IF result = "written" THEN "done" ELSE "error")
    /\ UNCHANGED <<bookVars, grid, files>>
    /\ UNCHANGED timerVars

(***************************************************************************)
(* load_book.                                                              *)
(***************************************************************************)
EmptyDict ==
    JObj([settings |-> Absent, spreads |-> Absent,
          page_width |-> Absent, page_number_start |-> Absent,
          show_page_numbers |-> Absent,
          left_page |-> Absent, right_page |-> Absent, image_path |-> Absent])

\* Mutant: the images are loaded without os.path.exists.
LoadSpread_NoExistsCheck(spread_data, exists) ==
    LET spread == SpreadWidget(SpreadStartDefault)
        left_image_path ==
            DictGet(DictGet(spread_data, "left_page", EmptyDict),
                    "image_path", JStr("")).v
        right_image_path ==
            DictGet(DictGet(spread_data, "right_page", EmptyDict),
                    "image_path", JStr("")).v
    IN [left_page |-> load_image(spread.left_page, left_image_path),
        right_page |-> load_image(spread.right_page, right_image_path)]

\* One pass of the loop over book_data["spreads"]: the SpreadWidget built from
\* spread_data, given the image paths that exist.
LoadSpread(spread_data, exists) ==
    LET spread == SpreadWidget(SpreadStartDefault)
        left_image_path ==
            DictGet(DictGet(spread_data, "left_page", EmptyDict),
                    "image_path", JStr("")).v
        right_image_path ==
            DictGet(DictGet(spread_data, "right_page", EmptyDict),
                    "image_path", JStr("")).v
    IN [left_page |-> IF left_image_path # "" /\ left_image_path \in exists
                      THEN load_image(spread.left_page, left_image_path)
                      ELSE spread.left_page,
        right_page |-> IF right_image_path # "" /\ right_image_path \in exists
                       THEN load_image(spread.right_page, right_image_path)
                       ELSE spread.right_page]

\* The loop: the spreads appended so far, and whether an entry raised.
RECURSIVE LoadSpreads(_, _, _, _)
LoadSpreads(entries, k, acc, exists) ==
    IF k > Len(entries)
    THEN [raised |-> FALSE, spreads |-> acc]
    ELSE IF ~IsDict(entries[k])
         THEN [raised |-> TRUE, spreads |-> acc]
         ELSE LoadSpreads(entries, k + 1,
                          Append(acc, LoadSpread(entries[k], exists)), exists)

\* The try block of load_book on the content of the chosen file: what the
\* book is when the block is left, normally or by an exception.
LoadResult(content, exists) ==
    IF content.kind # "json"
    THEN [outcome |-> "error", cleared |-> FALSE]
    ELSE IF ~IsDict(content.value)
         THEN [outcome |-> "error", cleared |-> TRUE, spreads |-> <<>>,
               page_width |-> current_page_width,
               start |-> page_number_start,
               show |-> show_page_numbers]
         ELSE LET book_data == content.value
                  settings == DictGet(book_data, "settings", EmptyDict)
                  page_width == DictGet(settings, "page_width",
                                        JNum(DefaultPageWidth)).v
                  start == DictGet(settings, "page_number_start",
                                   JNum(DefaultStartNumber)).v
                  show == DictGet(settings, "show_page_numbers", JBool(TRUE)).v
                  loop == LoadSpreads(DictGet(book_data, "spreads", JArr(<<>>)).v,
                                      1, <<>>, exists)
              IN [outcome |-> IF loop.raised THEN "error" ELSE "done",
                  cleared |-> TRUE,
                  spreads |-> IF loop.raised
                              THEN loop.spreads
                              ELSE update_all_page_numbers(loop.spreads, start, show),
                  page_width |-> page_width,
                  start |-> start,
                  show |-> show]

\* Mutant: the spreads are cleared before the dialogs are answered.
LoadBookNothingRead_Cleared ==
    /\ spreads' = <<>>
    /\ UNCHANGED <<current_page_width, page_number_start, show_page_numbers, grid>>

\* load_book returns on a declined confirmation and does nothing when no
\* file is chosen.
LoadBookNothingRead == UNCHANGED <<bookVars, grid>>

\* reply answers the confirmation dialog, shown only when the book has a
\* spread; file_name = "" is a cancelled file dialog; content is what the
\* chosen file holds (no file is read, MissingFile, when none is chosen).  After the spreads are cleared (setParent(None)) the
\* grid holds no widget until reorganize_layout runs.
load_book(reply, file_name, content) ==
    /\ spreads = <<>> => reply = "Yes"
    /\ (reply = "No" \/ file_name = "") => content = MissingFile
    /\ IF reply = "No" \/ file_name = ""
       THEN /\ LoadBookNothingRead
            /\ lastOp' = Op("load_book", -1, -1,
                            IF reply = "No" THEN "declined" ELSE "cancelled")
       ELSE \E r \in {LoadResult(content, files)} :
               /\ IF r.cleared
                  THEN /\ spreads' = r.spreads
                       /\ current_page_width' = r.page_width
                       /\ page_number_start' = r.start
                       /\ show_page_numbers' = r.show
                       /\ grid' = IF r.outcome = "done"
                                  THEN reorganize_layout(r.spreads, viewport_width,
                                                         r.page_width)
                                  ELSE <<>>
                  ELSE UNCHANGED <<bookVars, grid>>
               /\ lastOp' = [Op("load_book", -1, -1, r.outcome)
                                EXCEPT !.file = content]
    /\ UNCHANGED <<timerVars, fileVars>>

\* Environment: an image file is deleted or moved away.
FileRemoved(path) ==
    /\ path \in files
    /\ files' = files \ {path}
    /\ lastOp' = Op("FileRemoved", -1, -1, "done")
    /\ UNCHANGED <<bookVars, grid, book_file, saved_book>>
    /\ UNCHANGED timerVars

(***************************************************************************)
(* The resize debounce: resizeEvent (re)starts the single-shot timer, time *)
(* passes in steps of TickMs, and the event loop delivers the timeout of a *)
(* timer that has run out to reorganize_layout.                            *)
(***************************************************************************)
\* Mutant: a running timer is left running, not restarted.
TimerStart_KeepRunning(timer, msec) ==
    IF timer.active THEN timer ELSE [active |-> TRUE, remaining |-> msec]

\* QTimer.start(msec) on a single-shot timer: started, or restarted if active.
TimerStart(timer, msec) == [active |-> TRUE, remaining |-> msec]

resizeEvent(width) ==
    /\ resizes_left > 0
    /\ resizes_left' = resizes_left - 1
    /\ viewport_width' = width
    /\ resize_timer' = TimerStart(resize_timer, TimerInterval)
    /\ since_resize' = 0
    /\ fires_since_resize' = 0
    /\ lastOp' = Op("resizeEvent", -1, -1, "done")
    /\ UNCHANGED <<bookVars, grid, fileVars>>

Tick ==
    /\ resize_timer.active
    /\ resize_timer.remaining > 0
    /\ resize_timer' = [resize_timer EXCEPT
                            !.remaining = Max(0, resize_timer.remaining - TickMs)]
    /\ since_resize' = Min(TimerInterval, since_resize + TickMs)
    /\ lastOp' = Op("Tick", -1, -1, "done")
    /\ UNCHANGED <<bookVars, grid, fileVars, viewport_width, fires_since_resize,
                   resizes_left>>

\* The timer after its timeout was delivered: a single-shot timer stops.
TimerAfterTimeout(timer) == [timer EXCEPT !.active = FALSE]

\* resize_timer.timeout, connected to reorganize_layout.
TimerTimeout ==
    /\ resize_timer.active
    /\ resize_timer.remaining = 0
    /\ resize_timer' = TimerAfterTimeout(resize_timer)
    /\ grid' = reorganize_layout(spreads, viewport_width, current_page_width)
    /\ fires_since_resize' = Min(2, fires_since_resize + 1)
    /\ lastOp' = Op("TimerTimeout", -1, -1, "done")
    /\ UNCHANGED <<bookVars, fileVars, viewport_width, since_resize, resizes_left>>

(***************************************************************************)
(* The files load_book is tried on.                                        *)
(***************************************************************************)
FileSettings ==
    {Absent,
     SettingsJson(Absent, JNum(5), Absent),
     SettingsJson(JNum(1200), JNum(5), JBool(FALSE))}

FileEntries ==
    {EntryJson(PageJson(JStr("a.png")), PageJson(JStr("b.png"))),
     EntryJson(PageJson(Absent), Absent),
     JNum(7)}

RECURSIVE SeqsUpTo(_, _)
SeqsUpTo(S, n) ==
    IF n = 0 THEN {<<>>}
    ELSE LET shorter == SeqsUpTo(S, n - 1)
         IN shorter \cup {Append(q, x) : q \in shorter, x \in S}

FileContents ==
    {MissingFile, NotJsonFile, JsonFile(JArr(<<>>))}
        \cup {JsonFile(BookJson(st, sl)) :
                  st \in FileSettings,
                  sl \in {Absent} \cup {JArr(q) : q \in SeqsUpTo(FileEntries, MaxFileSpreads)}}

FileNames == {"", "chosen.book.json"}

Replies == {"Yes", "No"}

SpreadIndexes == 0..(Len(spreads) - 1)

PageIndexes == {0, 1}

\* Editing a book: every dialog is answered and confirmed.
Next ==
    \/ add_new_spread
    \/ \E i \in SpreadIndexes, p \in PageIndexes, f \in files :
           load_image_from_dialog(i, p, f)
    \/ \E i \in SpreadIndexes, p \in PageIndexes : swap_with_prev_page(i, p)
    \/ \E i \in SpreadIndexes, p \in PageIndexes : swap_with_next_page(i, p)
    \/ \E i \in SpreadIndexes, p \in PageIndexes : insert_new_page_before(i, p)
    \/ \E i \in SpreadIndexes, p \in PageIndexes : insert_new_page_after(i, p)
    \/ \E i \in SpreadIndexes, p \in PageIndexes : delete_page(i, p, "Yes")
    \/ new_book("Yes")

Spec == Init /\ [][Next]_vars

\* Loading files of any content while image files disappear: the images of
\* the book come from the files loaded, and the book is changed by the
\* handlers that ask for confirmation.
NextLoad ==
    \/ Len(spreads) < MaxFileSpreads /\ add_new_spread
    \/ \E i \in SpreadIndexes, p \in PageIndexes, r \in Replies : delete_page(i, p, r)
    \/ \E r \in Replies : new_book(r)
    \/ \E r \in Replies, f \in FileNames, c \in FileContents : load_book(r, f, c)
    \/ \E path \in Images : FileRemoved(path)

SpecLoad == Init /\ [][NextLoad]_vars

\* Every handler that changes the book, on books of up to MaxFileSpreads
\* spreads, with files of any content loaded.
NextBook ==
    \/ Len(spreads) < MaxFileSpreads /\ add_new_spread
    \/ \E i \in SpreadIndexes, p \in PageIndexes, f \in files :
           load_image_from_dialog(i, p, f)
    \/ \E i \in SpreadIndexes, p \in PageIndexes : swap_with_prev_page(i, p)
    \/ \E i \in SpreadIndexes, p \in PageIndexes : swap_with_next_page(i, p)
    \/ \E i \in SpreadIndexes, p \in PageIndexes :
           Len(spreads) < MaxFileSpreads /\ insert_new_page_before(i, p)
    \/ \E i \in SpreadIndexes, p \in PageIndexes :
           Len(spreads) < MaxFileSpreads /\ insert_new_page_after(i, p)
    \/ \E i \in SpreadIndexes, p \in PageIndexes, r \in Replies : delete_page(i, p, r)
    \/ \E r \in Replies : new_book(r)
    \/ \E b \in BOOLEAN : toggle_page_numbers(b)
    \/ \E n \in StartNumbers, ok \in BOOLEAN : set_start_page_number(n, ok)
    \/ \E r \in Replies, f \in FileNames, c \in FileContents : load_book(r, f, c)

SpecBook == Init /\ [][NextBook]_vars

\* Saving the book and loading the saved file again: the book is edited
\* until it is saved; from then on the user may start a new book, save again
\* and load the file, while image files may disappear.
NotYetSaved == saved_book = NoSavedBook

NextRoundTrip ==
    \/ NotYetSaved /\ Len(spreads) < MaxFileSpreads /\ add_new_spread
    \/ \E i \in SpreadIndexes, p \in PageIndexes, f \in files \cup {""} :
           NotYetSaved /\ load_image_from_dialog(i, p, f)
    \/ \E b \in BOOLEAN : NotYetSaved /\ toggle_page_numbers(b)
    \/ \E n \in StartNumbers, ok \in BOOLEAN :
           NotYetSaved /\ set_start_page_number(n, ok)
    \/ \E r \in Replies : new_book(r)
    \/ \E f \in FileNames, w \in SaveResults : save_book(f, w)
    \/ \E r \in Replies, f \in FileNames :
           load_book(r, f, IF r = "No" \/ f = "" THEN MissingFile ELSE book_file)
    \/ \E path \in Images : FileRemoved(path)

SpecRoundTrip == Init /\ [][NextRoundTrip]_vars

\* Resizing the window while spreads are added; the event loop delivers
\* every timeout and time does not stop.
NextResize ==
    \/ add_new_spread
    \/ \E w \in ViewportWidths : resizeEvent(w)
    \/ Tick
    \/ TimerTimeout

SpecResize ==
    Init /\ [][NextResize]_vars /\ WF_vars(Tick) /\ WF_vars(TimerTimeout)

\* Zooming: the page width is changed by the two zoom handlers, reset by a
\* new book and read from a file by load_book.
NextZoom ==
    \/ zoom_in
    \/ zoom_out
    \/ \E r \in Replies : new_book(r)
    \/ \E r \in Replies, f \in FileNames, c \in FileContents : load_book(r, f, c)

SpecZoom == Init /\ [][NextZoom]_vars

(***************************************************************************)
(* Page order: the image paths of all page slots, spread 0 left, spread 0  *)
(* right, spread 1 left, ...; and the non-empty ones among them.           *)
(***************************************************************************)
PagePaths(sp) ==
    [k \in 1..(2 * Len(sp)) |->
        IF k % 2 = 1 THEN sp[(k + 1) \div 2].left_page.image_path
                     ELSE sp[k \div 2].right_page.image_path]

IsImage(path) == path # ""

ImageSequence(sp) == SelectSeq(PagePaths(sp), IsImage)

\* Slot (1-based, in page order) of the page at (spread_idx, page_idx).
Slot(spread_idx, page_idx) == (2 * spread_idx) + page_idx + 1

Occurrences(seq, x) == Cardinality({k \in 1..Len(seq) : seq[k] = x})

InsertOps == {"insert_new_page_before", "insert_new_page_after"}

\* C6: insert_new_page_before(P) and insert_new_page_after(P) each add exactly one
\* spread and leave the sequence of non-empty image paths, read in page order,
\* as it was: no image is lost, duplicated or reordered.
C6_InsertIsSplice ==
    [][lastOp'.op \in InsertOps =>
          /\ Len(spreads') = Len(spreads) + 1
          /\ ImageSequence(spreads') = ImageSequence(spreads)]_vars

\* C7: after insert_new_page_before(P) the slot right before the slot that now
\* holds P's former image is empty, and after insert_new_page_after(P) the slot
\* right after it is empty (P holding an image found nowhere else in the book,
\* so that the slot holding it is determined).
C7_BlankAdjacent ==
    [][lastOp'.op \in InsertOps =>
          LET img == ImageAt(spreads, lastOp'.spread_idx, lastOp'.page_idx)
              after == PagePaths(spreads')
          IN (img # "" /\ Occurrences(PagePaths(spreads), img) = 1) =>
                IF lastOp'.op = "insert_new_page_before"
                THEN \E q \in 2..Len(after) : after[q] = img /\ after[q - 1] = ""
                ELSE \E q \in 1..(Len(after) - 1) : after[q] = img /\ after[q + 1] = ""]_vars

\* The page paths of sp with the slots j and k exchanged.
Exchanged(paths, j, k) ==
    [n \in 1..Len(paths) |->
        IF n = j THEN paths[k] ELSE IF n = k THEN paths[j] ELSE paths[n]]

\* C8: swap_with_next_page(P) exchanges the image paths of P and the page after
\* it in page order, swap_with_prev_page(P) those of P and the page before it;
\* no other page and not the number of spreads changes; a P without that
\* neighbour leaves the book as it is; the same swap applied twice restores
\* the book.
C8_SwapStep ==
    LET paths == PagePaths(spreads)
        k == Slot(lastOp'.spread_idx, lastOp'.page_idx)
    IN /\ lastOp'.op = "swap_with_next_page" =>
              /\ Len(spreads') = Len(spreads)
              /\ PagePaths(spreads') = IF k < Len(paths)
                                       THEN Exchanged(paths, k, k + 1)
                                       ELSE paths
       /\ lastOp'.op = "swap_with_prev_page" =>
              /\ Len(spreads') = Len(spreads)
              /\ PagePaths(spreads') = IF k > 1
                                       THEN Exchanged(paths, k, k - 1)
                                       ELSE paths

C8_SwapTwice ==
    \A i \in SpreadIndexes, p \in PageIndexes :
        /\ SwapWithNext(SwapWithNext(spreads, i, p), i, p) = spreads
        /\ SwapWithPrev(SwapWithPrev(spreads, i, p), i, p) = spreads

C8_SwapNeighbour == [][C8_SwapStep]_vars /\ []C8_SwapTwice

\* A swap across a spread boundary exchanged two different images.
C8_Witness ==
    /\ lastOp.op = "swap_with_next_page"
    /\ lastOp.page_idx = 1
    /\ lastOp.spread_idx = 1
    /\ Len(spreads) = 3
    /\ ImageAt(spreads, 1, 1) = "a.png"
    /\ ImageAt(spreads, 2, 0) = "b.png"

\* C9: a confirmed delete_page(P) removes exactly P's image (the sequence of
\* non-empty image paths afterwards is the one before without the image of P's
\* slot); the spread of P is removed iff both its pages are then empty and the
\* book has more than one spread; every other spread stays, with its images.
C9_DeleteStep ==
    LET i == lastOp'.spread_idx
        p == lastOp'.page_idx
        paths == PagePaths(spreads)
        cleared == [paths EXCEPT ![Slot(i, p)] = ""]
        removed == ImageAt(spreads, i, 1 - p) = "" /\ Len(spreads) > 1
    IN (lastOp'.op = "delete_page" /\ lastOp'.outcome = "done") =>
          /\ ImageSequence(spreads') = SelectSeq(cleared, IsImage)
          /\ Len(spreads') = IF removed THEN Len(spreads) - 1 ELSE Len(spreads)
          /\ \A j \in SpreadIndexes :
                j # i =>
                   LET j2 == IF removed /\ j > i THEN j - 1 ELSE j
                   IN /\ ImageAt(spreads', j2, 0) = ImageAt(spreads, j, 0)
                      /\ ImageAt(spreads', j2, 1) = ImageAt(spreads, j, 1)

C9_DeleteAutoMerge == [][C9_DeleteStep]_vars

\* The left page of a middle spread was deleted and its right image moved left.
C9_Witness ==
    /\ lastOp.op = "delete_page"
    /\ lastOp.outcome = "done"
    /\ lastOp.spread_idx = 1
    /\ lastOp.page_idx = 0
    /\ Len(spreads) = 3
    /\ ImageAt(spreads, 1, 0) = "b.png"
    /\ ImageAt(spreads, 1, 1) = ""

\* C1: the book always holds at least one spread.
C1_AtLeastOneSpread == Len(spreads) >= 1

\* C2: after every completed handler the left page of the spread at index i
\* displays page_number_start + 2*i and its right page page_number_start + 2*i + 1.
C2_PageNumbers ==
    \A i \in SpreadIndexes :
        /\ spreads[i + 1].left_page.page_number = page_number_start + (2 * i)
        /\ spreads[i + 1].right_page.page_number = page_number_start + (2 * i) + 1

\* C3: a book saved by save_book and loaded again from that file by load_book,
\* while every non-empty saved image path exists, has the saved page width,
\* start number and visibility flag, as many spreads and in every spread the
\* saved left and right image paths.
SavedPathsExist ==
    \A i \in 1..Len(saved_book.paths) :
        \A p \in 1..2 :
            saved_book.paths[i][p] # "" => saved_book.paths[i][p] \in files

BookReadFromFile ==
    lastOp.op = "load_book" /\ lastOp.outcome \in {"done", "error"}

NamedPath(page_json) ==
    IF page_json = Absent THEN ""
    ELSE IF page_json.v.image_path = Absent THEN ""
         ELSE page_json.v.image_path.v

\* The spreads array of a book file whose entries all are objects.
FileSpreads(content) ==
    IF content.value.v.spreads = Absent THEN <<>> ELSE content.value.v.spreads.v

WellFormedBookFile(content) ==
    /\ content.kind = "json"
    /\ IsDict(content.value)
    /\ \A k \in 1..Len(FileSpreads(content)) : IsDict(FileSpreads(content)[k])

ExpectedPath(page_json) ==
    IF NamedPath(page_json) \in files THEN NamedPath(page_json) ELSE ""

ResizePending == resizes_left < MaxResizes /\ fires_since_resize = 0

LayoutRecomputed ==
    /\ fires_since_resize = 1
    /\ grid = reorganize_layout(spreads, viewport_width, current_page_width)

C5_OncePerBurst ==
    /\ fires_since_resize <= 1
    /\ fires_since_resize = 1 => since_resize >= TimerInterval

C5_Debounce == []C5_OncePerBurst /\ (ResizePending ~> LayoutRecomputed)

\* After a burst of three resize events the timer fired and three spreads lie
\* in one row.
C5_Witness ==
    /\ resizes_left = 0
    /\ fires_since_resize = 1
    /\ Len(spreads) = 3
    /\ grid = <<<<0, 0>>, <<0, 1>>, <<0, 2>>>>

\* C10: a declined confirmation of delete_page, new_book or load_book, and a
\* cancelled file dialog of load_book, leave the spreads (with every page's
\* image path and displayed number), the page width, the start number and
\* the visibility flag as they were.
C10_DeclinedStep ==
    (/\ lastOp'.op \in {"delete_page", "new_book", "load_book"}
     /\ lastOp'.outcome \in {"declined", "cancelled"}) =>
        UNCHANGED bookVars

C10_DeclinedChangesNothing == [][C10_DeclinedStep]_vars

\* The file dialog of load_book was cancelled over a book with two spreads
\* and an image.
C10_Witness ==
    /\ lastOp.op = "load_book"
    /\ lastOp.outcome = "cancelled"
    /\ Len(spreads) = 2
    /\ spreads[2].right_page.image_path = "b.png"

\* C11: a load_book that ends in its except branch leaves the book as it was
\* before the call: the spreads list with every page's image path, the page
\* width, the start number and the visibility flag.
C11_ErrorStep ==
    (lastOp'.op = "load_book" /\ lastOp'.outcome = "error") =>
        /\ Len(spreads') = Len(spreads)
        /\ PagePaths(spreads') = PagePaths(spreads)
        /\ UNCHANGED <<current_page_width, page_number_start, show_page_numbers>>

C11_LoadErrorKeepsBook == [][C11_ErrorStep]_vars

\* C12: the page width stays within the zoom limits, ZoomMin <=
\* current_page_width <= ZoomMax, in every state reached by zoom_in, zoom_out,
\* new_book and load_book; zoom_in sets a width w < ZoomMax to
\* min(ZoomMax, floor(1.3 * w)) and zoom_out sets a width w > ZoomMin to
\* max(ZoomMin, floor(0.7 * w)), and they leave any other width as it is.
C12_WithinLimits ==
    ZoomMin <= current_page_width /\ current_page_width <= ZoomMax

C12_ZoomStep ==
    /\ lastOp'.op = "zoom_in" =>
          current_page_width' =
              IF current_page_width < ZoomMax
              THEN Min(ZoomMax, (13 * current_page_width) \div 10)
              ELSE current_page_width
    /\ lastOp'.op = "zoom_out" =>
          current_page_width' =
              IF current_page_width > ZoomMin
              THEN Max(ZoomMin, (7 * current_page_width) \div 10)
              ELSE current_page_width

C12_PageWidthWithinLimits == []C12_WithinLimits /\ [][C12_ZoomStep]_vars

====
